---------------------------- MODULE Spec2Model ----------------------------
(***************************************************************************)
(* A model of the armor crate (src/src/lib.rs, src/src/csp.rs): the fixed  *)
(* security-header functions, referrer_policy, and the                     *)
(* Content-Security-Policy builder with its render (value) and apply.      *)
(*                                                                         *)
(* A Rust String is modelled as the sequence of its bytes, so that         *)
(* Vec<String>::sort (byte-wise lexicographic Ord), format!, join and the  *)
(* HeaderValue parse are computed on the bytes as the code computes them.  *)
(* A header collection (http::HeaderMap) is a function from header name to *)
(* the sequence of that header's values; <<>> means the key is absent.     *)
(***************************************************************************)
EXTENDS Integers, Sequences, FiniteSets, TLC

VARIABLES
    csp,          \* the ContentSecurityPolicy builder: policy, report_only_flag, directives
    headers,      \* the caller's header collection
    panicked,     \* an unwrap() in apply has panicked
    h0,           \* history: the header collection as the caller handed it over
    applied,      \* history: number of apply() calls made on the current builder
    applies,      \* history: number of apply() calls made so far
    inarow,       \* history: apply() calls completed since the last builder method
    calls,        \* history: builder methods called so far
    called,       \* history: per directive method, the sources passed, in call order
    lastApplied,  \* history: per CSP header key, the value rendered by the latest apply to it
    modes,        \* history: the arguments of the referrer_policy calls, in call order
    armored       \* history: the last operation on the collection was armor()

vars == <<csp, headers, panicked, h0, applied, applies, inarow, calls, called,
          lastApplied, modes, armored>>

----------------------------------------------------------------------------
(* Bounds of the model *)

\* builder methods called in one behaviour
MaxCalls == 2
\* apply() calls made in one behaviour
MaxApplies == 2
\* referrer_policy calls in one behaviour
MaxReferrer == 2

----------------------------------------------------------------------------
(* Strings as byte sequences *)

RECURSIVE concat(_)
\* the concatenation of a sequence of strings
concat(ss) ==
    IF ss = <<>> THEN <<>> ELSE Head(ss) \o concat(Tail(ss))

RECURSIVE join(_, _)
\* [String]::join(sep)
join(ss, sep) ==
    IF ss = <<>> THEN <<>>
    ELSE IF Len(ss) = 1 THEN ss[1]
    ELSE ss[1] \o sep \o join(Tail(ss), sep)

RECURSIVE str_lt_from(_, _, _)
\* a < b, given that a and b agree before position i
str_lt_from(a, b, i) ==
    IF i > Len(a) THEN i <= Len(b)
    ELSE IF i > Len(b) THEN FALSE
    ELSE IF a[i] # b[i] THEN a[i] < b[i]
    ELSE str_lt_from(a, b, i + 1)

\* Ord for String: byte-wise lexicographic, a proper prefix is smaller
str_lt(a, b) ==
    str_lt_from(a, b, 1)

RECURSIVE sort_insert(_, _)
\* x put into the sorted list ss, after the elements not greater than it
sort_insert(ss, x) ==
    IF ss = <<>> THEN <<x>>
    ELSE IF str_lt(x, Head(ss)) THEN <<x>> \o ss
    ELSE <<Head(ss)>> \o sort_insert(Tail(ss), x)

RECURSIVE sort(_)
\* Vec<String>::sort: stable, ascending by Ord
sort(ss) ==
    IF ss = <<>> THEN <<>>
    ELSE sort_insert(sort(SubSeq(ss, 1, Len(ss) - 1)), ss[Len(ss)])

\* the enumerations of a finite set, each a possible iteration order of a HashMap
Orders(S) ==
    {f \in [1..Cardinality(S) -> S] : \A i, j \in DOMAIN f : i # j => f[i] # f[j]}

----------------------------------------------------------------------------
(* csp.rs: Source *)

SourceVariants ==
    {"SameOrigin", "SRC", "None", "UnsafeInline", "Data", "Mediastream", "HTTPS",
     "Blob", "Filesystem", "StrictDynamic", "UnsafeEval", "Wildcard"}

\* impl AsRef<str> for Source
as_ref(source) ==
    CASE source = "SameOrigin"    -> <<39, 115, 101, 108, 102, 39>>
      [] source = "SRC"           -> <<39, 115, 114, 99, 39>>
      [] source = "None"          -> <<39, 110, 111, 110, 101, 39>>
      [] source = "UnsafeInline"  -> <<39, 117, 110, 115, 97, 102, 101, 45, 105, 110, 108, 105, 110, 101, 39>>
      [] source = "Data"          -> <<100, 97, 116, 97, 58>>
      [] source = "Mediastream"   -> <<109, 101, 100, 105, 97, 115, 116, 114, 101, 97, 109, 58>>
      [] source = "HTTPS"         -> <<104, 116, 116, 112, 115, 58>>
      [] source = "Blob"          -> <<98, 108, 111, 98, 58>>
      [] source = "Filesystem"    -> <<102, 105, 108, 101, 115, 121, 115, 116, 101, 109, 58>>
      [] source = "StrictDynamic" -> <<39, 115, 116, 114, 105, 99, 116, 45, 100, 121, 110, 97, 109, 105, 99, 39>>
      [] source = "UnsafeEval"    -> <<39, 117, 110, 115, 97, 102, 101, 45, 101, 118, 97, 108, 39>>
      [] source = "Wildcard"      -> <<42>>

----------------------------------------------------------------------------
(* csp.rs: ReportTo and its JSON serialization (serde_json::to_string).    *)
(* An Option is a sequence of no or one element.                           *)

RECURSIVE decimal(_)
\* the decimal digits of a natural number
decimal(n) ==
    IF n < 10 THEN <<48 + n>> ELSE decimal(n \div 10) \o <<48 + (n % 10)>>

\* an i32 as serde_json writes it
json_int(n) ==
    IF n < 0 THEN <<45>> \o decimal(0 - n) ELSE decimal(n)

hex_digit(d) ==
    IF d < 10 THEN 48 + d ELSE 87 + d

\* one byte of a string as serde_json escapes it
json_escape(c) ==
    CASE c = 34 -> <<92, 34>>
      [] c = 92 -> <<92, 92>>
      [] c = 8  -> <<92, 98>>
      [] c = 9  -> <<92, 116>>
      [] c = 10 -> <<92, 110>>
      [] c = 12 -> <<92, 102>>
      [] c = 13 -> <<92, 114>>
      [] c < 32 /\ c \notin {8, 9, 10, 12, 13}
                -> <<92, 117, 48, 48, hex_digit(c \div 16), hex_digit(c % 16)>>
      [] OTHER  -> <<c>>

\* a string as a JSON string
json_string(s) ==
    <<34>> \o concat([i \in DOMAIN s |-> json_escape(s[i])]) \o <<34>>

\* #[derive(Serialize)] ReportToEndpoint: {"url":...}
json_endpoint(e) ==
    <<123, 34, 117, 114, 108, 34, 58>> \o json_string(e.url) \o <<125>>

\* #[derive(Serialize)] ReportTo: group and include_subdomains are skipped when None
to_string(r) ==
    <<123>>
    \o (IF r.group = <<>> THEN <<>>
        ELSE <<34, 103, 114, 111, 117, 112, 34, 58>> \o json_string(r.group[1]) \o <<44>>)
    \o <<34, 109, 97, 120, 95, 97, 103, 101, 34, 58>> \o json_int(r.max_age)
    \o <<44, 34, 101, 110, 100, 112, 111, 105, 110, 116, 115, 34, 58, 91>>
    \o join([i \in DOMAIN r.endpoints |-> json_endpoint(r.endpoints[i])], <<44>>)
    \o <<93>>
    \o (IF r.include_subdomains = <<>> THEN <<>>
        ELSE <<44, 34, 105, 110, 99, 108, 117, 100, 101, 95, 115, 117, 98, 100, 111, 109,
               97, 105, 110, 115, 34, 58>>
             \o (IF r.include_subdomains[1] THEN <<116, 114, 117, 101>>
                 ELSE <<102, 97, 108, 115, 101>>))
    \o <<125>>

----------------------------------------------------------------------------
(* csp.rs: ContentSecurityPolicy *)

\* impl Default: one combined token "script-src 'self'; object-src 'self'"
default ==
    [policy |-> << <<115, 99, 114, 105, 112, 116, 45, 115, 114, 99, 32, 39, 115, 101,
                     108, 102, 39, 59, 32, 111, 98, 106, 101, 99, 116, 45, 115, 114, 99,
                     32, 39, 115, 101, 108, 102, 39>> >>,
     report_only_flag |-> FALSE,
     directives |-> <<>>]

\* ContentSecurityPolicy::new and csp::new
new ==
    [policy |-> <<>>, report_only_flag |-> FALSE, directives |-> <<>>]

\* entry(directive).or_insert_with(Vec::new), then push(source)
insert_directive(self, directive, source) ==
    [self EXCEPT !.directives =
        IF directive \in DOMAIN self.directives
        THEN [self.directives EXCEPT ![directive] = Append(@, source)]
        ELSE [d \in DOMAIN self.directives \cup {directive} |->
                 IF d = directive THEN <<source>> ELSE self.directives[d]]]

base_uri(self, source) ==
    insert_directive(self, <<98, 97, 115, 101, 45, 117, 114, 105>>, source)

block_all_mixed_content(self) ==
    [self EXCEPT !.policy = Append(@,
        <<98, 108, 111, 99, 107, 45, 97, 108, 108, 45, 109, 105, 120, 101, 100, 45, 99,
          111, 110, 116, 101, 110, 116>>)]

connect_src(self, source) ==
    insert_directive(self, <<99, 111, 110, 110, 101, 99, 116, 45, 115, 114, 99>>, source)

default_src(self, source) ==
    insert_directive(self, <<100, 101, 102, 97, 117, 108, 116, 45, 115, 114, 99>>, source)

font_src(self, source) ==
    insert_directive(self, <<102, 111, 110, 116, 45, 115, 114, 99>>, source)

form_action(self, source) ==
    insert_directive(self, <<102, 111, 114, 109, 45, 97, 99, 116, 105, 111, 110>>, source)

frame_ancestors(self, source) ==
    insert_directive(self,
        <<102, 114, 97, 109, 101, 45, 97, 110, 99, 101, 115, 116, 111, 114, 115>>, source)

frame_src(self, source) ==
    insert_directive(self, <<102, 114, 97, 109, 101, 45, 115, 114, 99>>, source)

img_src(self, source) ==
    insert_directive(self, <<105, 109, 103, 45, 115, 114, 99>>, source)

media_src(self, source) ==
    insert_directive(self, <<109, 101, 100, 105, 97, 45, 115, 114, 99>>, source)

object_src(self, source) ==
    insert_directive(self, <<111, 98, 106, 101, 99, 116, 45, 115, 114, 99>>, source)

plugin_types(self, source) ==
    insert_directive(self, <<112, 108, 117, 103, 105, 110, 45, 116, 121, 112, 101, 115>>,
                     source)

\* the key the code passes ends with a space: "require-sri-for "
require_sri_for(self, source) ==
    insert_directive(self,
        <<114, 101, 113, 117, 105, 114, 101, 45, 115, 114, 105, 45, 102, 111, 114, 32>>,
        source)

\* report_uri as a method that pushes its own token "report-uri <uri>" onto policy
report_uri_pushes_token(self, uri) ==
    [self EXCEPT !.policy = Append(@,
        <<114, 101, 112, 111, 114, 116, 45, 117, 114, 105, 32>> \o uri)]

report_uri(self, uri) ==
    insert_directive(self, <<114, 101, 112, 111, 114, 116, 45, 117, 114, 105>>, uri)

RECURSIVE report_to_loop(_, _, _)
\* for endpoint in endpoints.iter(): push "report-to " + json (to_string cannot fail here)
report_to_loop(policy, endpoints, i) ==
    IF i > Len(endpoints) THEN policy
    ELSE report_to_loop(
            Append(policy, <<114, 101, 112, 111, 114, 116, 45, 116, 111, 32>>
                           \o to_string(endpoints[i])),
            endpoints, i + 1)

report_to(self, endpoints) ==
    [self EXCEPT !.policy = report_to_loop(@, endpoints, 1)]

sandbox(self, source) ==
    insert_directive(self, <<115, 97, 110, 100, 98, 111, 120>>, source)

script_src(self, source) ==
    insert_directive(self, <<115, 99, 114, 105, 112, 116, 45, 115, 114, 99>>, source)

style_src(self, source) ==
    insert_directive(self, <<115, 116, 121, 108, 101, 45, 115, 114, 99>>, source)

upgrade_insecure_requests(self) ==
    [self EXCEPT !.policy = Append(@,
        <<117, 112, 103, 114, 97, 100, 101, 45, 105, 110, 115, 101, 99, 117, 114, 101, 45,
          114, 101, 113, 117, 101, 115, 116, 115>>)]

worker_src(self, source) ==
    insert_directive(self, <<119, 111, 114, 107, 101, 114, 45, 115, 114, 99>>, source)

report_only(self) ==
    [self EXCEPT !.report_only_flag = TRUE]

\* format!("{} {}", directive, sources.join(" "))
format_directive(directive, sources) ==
    directive \o <<32>> \o join(sources, <<32>>)

RECURSIVE value_loop_per_source(_, _, _, _)
\* the loop of value() pushing one fragment "<directive> <source>" per source
value_loop_per_source(policy, directives, order, i) ==
    IF i > Len(order) THEN policy
    ELSE value_loop_per_source(
            sort(policy \o [k \in DOMAIN directives[order[i]] |->
                                order[i] \o <<32>> \o directives[order[i]][k]]),
            directives, order, i + 1)

RECURSIVE value_loop(_, _, _, _)
\* the loop of value(): per directive, in the map's iteration order, push then sort
value_loop(policy, directives, order, i) ==
    IF i > Len(order) THEN policy
    ELSE value_loop(
            sort(Append(policy, format_directive(order[i], directives[order[i]]))),
            directives, order, i + 1)

\* value(&mut self): the builder afterwards and the string returned;
\* order is the iteration order of the directives HashMap
value(self, order) ==
    LET p == value_loop(self.policy, self.directives, order, 1)
    IN  [self |-> [self EXCEPT !.policy = p], val |-> join(p, <<59, 32>>)]

----------------------------------------------------------------------------
(* http::HeaderMap and HeaderValue, as the code uses them *)

HeaderNames ==
    {"Content-Security-Policy", "Content-Security-Policy-Report-Only",
     "X-DNS-Prefetch-Control", "X-Content-Type-Options", "X-Frame-Options",
     "X-Powered-By", "Strict-Transport-Security", "X-XSS-Protection",
     "Referrer-Policy", "Server"}

\* HeaderMap::new()
EmptyHeaders == [k \in HeaderNames |-> <<>>]

\* HeaderMap::contains_key
contains_key(h, key) == h[key] # <<>>

\* HeaderMap::insert: the key's values are replaced by the one value
insert(h, key, val) == [h EXCEPT ![key] = <<val>>]

\* HeaderMap::append: the value is added after the key's values
append(h, key, val) == [h EXCEPT ![key] = Append(@, val)]

\* HeaderMap::remove: every value of the key goes
remove(h, key) == [h EXCEPT ![key] = <<>>]

\* str::parse::<HeaderValue>() is Ok: every byte is a visible ASCII byte, a space or a
\* tab (control characters such as a line feed are refused by every http release)
parse_ok(val) ==
    \A i \in DOMAIN val : (val[i] >= 32 /\ val[i] < 127) \/ val[i] = 9

\* apply with headers.append in place of headers.insert
apply_appends(self, h, order) ==
    LET v == value(self, order)
    IN  IF ~parse_ok(v.val)
        THEN [self |-> v.self, headers |-> h, panicked |-> TRUE]
        ELSE IF ~v.self.report_only_flag
        THEN [self |-> v.self, panicked |-> FALSE,
              headers |-> append(h, "Content-Security-Policy", v.val)]
        ELSE [self |-> v.self, panicked |-> FALSE,
              headers |-> append(h, "Content-Security-Policy-Report-Only", v.val)]

\* apply(&mut self, headers): value() first, then parse().unwrap(), then the insert
apply(self, h, order) ==
    LET v == value(self, order)
    IN  IF ~parse_ok(v.val)
        THEN [self |-> v.self, headers |-> h, panicked |-> TRUE]
        ELSE IF ~v.self.report_only_flag
        THEN [self |-> v.self, panicked |-> FALSE,
              headers |-> insert(h, "Content-Security-Policy", v.val)]
        ELSE [self |-> v.self, panicked |-> FALSE,
              headers |-> insert(h, "Content-Security-Policy-Report-Only", v.val)]

----------------------------------------------------------------------------
(* lib.rs *)

dns_prefetch_control(h) ==
    insert(h, "X-DNS-Prefetch-Control", <<111, 110>>)

\* Option<FrameOptions>
FrameOptions == {"None", "SameOrigin", "Deny"}

frameguard(h, guard) ==
    LET kind == IF guard \in {"None", "SameOrigin"}
                THEN <<115, 97, 109, 101, 111, 114, 105, 103, 105, 110>>
                ELSE <<100, 101, 110, 121>>
    IN  insert(h, "X-Frame-Options", kind)

\* hide_powered_by that leaves the header where it is
hide_powered_by_keeps(h) == h

hide_powered_by(h) ==
    remove(h, "X-Powered-By")

hsts(h) ==
    insert(h, "Strict-Transport-Security",
           <<109, 97, 120, 45, 97, 103, 101, 61, 53, 49, 56, 52, 48, 48, 48>>)

dont_sniff_mimetype(h) ==
    insert(h, "X-Content-Type-Options", <<110, 111, 115, 110, 105, 102, 102>>)

xss_filter(h) ==
    insert(h, "X-XSS-Protection", <<49, 59, 32, 109, 111, 100, 101, 61, 98, 108, 111, 99, 107>>)

armor(h) ==
    xss_filter(hsts(hide_powered_by(frameguard(
        dont_sniff_mimetype(dns_prefetch_control(h)), "None"))))

\* Option<ReferrerOptions>
ReferrerOptions ==
    {"None", "Empty", "NoReferrer", "NoReferrerDowngrade", "SameOrigin", "Origin",
     "StrictOrigin", "CrossOrigin", "StrictCrossOrigin", "UnsafeUrl"}

\* the match of referrer_policy
referrer_string(referrer) ==
    CASE referrer \in {"None", "Empty"} -> <<>>
      [] referrer = "NoReferrer" -> <<110, 111, 45, 114, 101, 102, 101, 114, 114, 101, 114>>
      [] referrer = "NoReferrerDowngrade" ->
            <<110, 111, 45, 114, 101, 102, 101, 114, 114, 101, 114, 45, 119, 104, 101, 110,
              45, 100, 111, 119, 110, 103, 114, 97, 100, 101>>
      [] referrer = "SameOrigin" -> <<115, 97, 109, 101, 45, 111, 114, 105, 103, 105, 110>>
      [] referrer = "Origin" -> <<111, 114, 105, 103, 105, 110>>
      [] referrer = "StrictOrigin" ->
            <<115, 116, 114, 105, 99, 116, 45, 111, 114, 105, 103, 105, 110>>
      [] referrer = "CrossOrigin" ->
            <<111, 114, 105, 103, 105, 110, 45, 119, 104, 101, 110, 45, 99, 114, 111, 115,
              115, 45, 111, 114, 105, 103, 105, 110>>
      [] referrer = "StrictCrossOrigin" ->
            <<115, 116, 114, 105, 99, 116, 45, 111, 114, 105, 103, 105, 110, 45, 119, 104,
              101, 110, 45, 99, 114, 111, 115, 115, 45, 111, 114, 105, 103, 105, 110>>
      [] referrer = "UnsafeUrl" -> <<117, 110, 115, 97, 102, 101, 45, 117, 114, 108>>

\* referrer_policy that always inserts
referrer_policy_inserts(h, referrer) ==
    insert(h, "Referrer-Policy", referrer_string(referrer))

referrer_policy(h, referrer) ==
    LET policy == referrer_string(referrer)
    IN  IF contains_key(h, "Referrer-Policy")
        THEN append(h, "Referrer-Policy", policy)
        ELSE insert(h, "Referrer-Policy", policy)

----------------------------------------------------------------------------
(* The inputs the operations are given *)

\* the per-directive methods and report_uri, all of which go through insert_directive
Methods ==
    {"base_uri", "connect_src", "default_src", "font_src", "form_action",
     "frame_ancestors", "frame_src", "img_src", "media_src", "object_src",
     "plugin_types", "require_sri_for", "report_uri", "sandbox", "script_src",
     "style_src", "worker_src"}

\* the call self.<method>(source)
call_method(method, self, source) ==
    CASE method = "base_uri"        -> base_uri(self, source)
      [] method = "connect_src"     -> connect_src(self, source)
      [] method = "default_src"     -> default_src(self, source)
      [] method = "font_src"        -> font_src(self, source)
      [] method = "form_action"     -> form_action(self, source)
      [] method = "frame_ancestors" -> frame_ancestors(self, source)
      [] method = "frame_src"       -> frame_src(self, source)
      [] method = "img_src"         -> img_src(self, source)
      [] method = "media_src"       -> media_src(self, source)
      [] method = "object_src"      -> object_src(self, source)
      [] method = "plugin_types"    -> plugin_types(self, source)
      [] method = "require_sri_for" -> require_sri_for(self, source)
      [] method = "report_uri"      -> report_uri(self, source)
      [] method = "sandbox"         -> sandbox(self, source)
      [] method = "script_src"      -> script_src(self, source)
      [] method = "style_src"       -> style_src(self, source)
      [] method = "worker_src"      -> worker_src(self, source)

\* the methods the builder actions draw from
MethodInputs ==
    {"base_uri", "script_src", "require_sri_for", "report_uri"}

\* sources and URIs given by the caller: Source::Wildcard, "a", and a line feed,
\* which is not legal in a header value
Sources ==
    {as_ref("Wildcard"), <<97>>, <<10>>}

\* a report-to descriptor with every field set: group "g", max_age 10, one endpoint "u"
Descriptor ==
    [group |-> << <<103>> >>, max_age |-> 10, endpoints |-> << [url |-> <<117>>] >>,
     include_subdomains |-> <<TRUE>>]

\* the vectors given to report_to; ReportTo has private fields and no constructor,
\* so only code inside the crate can build the non-empty one
ReportToInputs ==
    {<<>>, <<Descriptor>>}

\* the header collections the caller hands over: an empty one, and one that holds
\* headers already, Content-Security-Policy and X-Frame-Options with two values each
CallerHeaders ==
    {EmptyHeaders,
     [EmptyHeaders EXCEPT !["Content-Security-Policy"] = << <<120>>, <<121>> >>,
                          !["X-Powered-By"] = << <<84, 105, 100, 101, 47, 82, 117, 115, 116>> >>,
                          !["X-Frame-Options"] = << <<100, 101, 110, 121>>, <<100, 101, 110, 121>> >>,
                          !["X-XSS-Protection"] = << <<48>> >>,
                          !["Referrer-Policy"] = << <<111, 114, 105, 103, 105, 110>> >>,
                          !["Server"] = << <<120>> >>]}

CspKeys == {"Content-Security-Policy", "Content-Security-Policy-Report-Only"}

NoCalls == [m \in Methods |-> <<>>]

----------------------------------------------------------------------------
(* The state machine *)

Init ==
    /\ csp \in {new, default}
    /\ headers \in CallerHeaders
    /\ h0 = headers
    /\ panicked = FALSE
    /\ applied = 0
    /\ applies = 0
    /\ inarow = 0
    /\ calls = 0
    /\ called = NoCalls
    /\ lastApplied = [k \in CspKeys |-> <<>>]
    /\ modes = <<>>
    /\ armored = FALSE

\* the current builder has been applied and is dropped; builder b takes its place
Construct(b) ==
    /\ applied > 0
    /\ csp' = b
    /\ applied' = 0
    /\ inarow' = 0
    /\ called' = NoCalls
    /\ UNCHANGED <<headers, panicked, h0, applies, calls, lastApplied, modes, armored>>

New ==
    ~panicked /\ Construct(new)

Default ==
    ~panicked /\ Construct(default)

\* a builder method that leaves the builder as b
Method(b) ==
    /\ ~panicked
    /\ calls < MaxCalls
    /\ csp' = b
    /\ calls' = calls + 1
    /\ inarow' = 0
    /\ UNCHANGED <<headers, panicked, h0, applied, applies, lastApplied, modes, armored>>

\* base_uri, ..., worker_src and report_uri
Directive ==
    \E m \in MethodInputs, s \in Sources :
        /\ Method(call_method(m, csp, s))
        /\ called' = [called EXCEPT ![m] = Append(@, s)]

BlockAllMixedContent ==
    Method(block_all_mixed_content(csp)) /\ UNCHANGED called

UpgradeInsecureRequests ==
    Method(upgrade_insecure_requests(csp)) /\ UNCHANGED called

ReportTo ==
    \E e \in ReportToInputs : Method(report_to(csp, e)) /\ UNCHANGED called

ReportOnly ==
    Method(report_only(csp)) /\ UNCHANGED called

\* the header key apply targets
Target(self) ==
    IF self.report_only_flag THEN "Content-Security-Policy-Report-Only"
    ELSE "Content-Security-Policy"

Apply ==
    /\ ~panicked
    /\ applies < MaxApplies
    /\ \E order \in Orders(DOMAIN csp.directives) :
        LET r == apply(csp, headers, order)
        IN  /\ csp' = r.self
            /\ headers' = r.headers
            /\ panicked' = r.panicked
            /\ inarow' = IF r.panicked THEN inarow ELSE inarow + 1
            /\ lastApplied' = IF r.panicked THEN lastApplied
                              ELSE [lastApplied EXCEPT ![Target(csp)] = <<value(csp, order).val>>]
    /\ applied' = applied + 1
    /\ applies' = applies + 1
    /\ UNCHANGED <<h0, calls, called, modes, armored>>

Next ==
    \/ New
    \/ Default
    \/ Directive
    \/ BlockAllMixedContent
    \/ UpgradeInsecureRequests
    \/ ReportTo
    \/ ReportOnly
    \/ Apply

\* the builder and its apply on one header collection
Spec == Init /\ [][Next]_vars

\* an operation of lib.rs that leaves the collection as h
HeaderOp(h) ==
    /\ headers' = h
    /\ UNCHANGED <<csp, panicked, h0, applied, applies, inarow, calls, called,
                   lastApplied>>

Armor ==
    HeaderOp(armor(headers)) /\ armored' = TRUE /\ UNCHANGED modes

DnsPrefetchControl ==
    HeaderOp(dns_prefetch_control(headers)) /\ armored' = FALSE /\ UNCHANGED modes

DontSniffMimetype ==
    HeaderOp(dont_sniff_mimetype(headers)) /\ armored' = FALSE /\ UNCHANGED modes

Frameguard ==
    \E guard \in FrameOptions :
        HeaderOp(frameguard(headers, guard)) /\ armored' = FALSE /\ UNCHANGED modes

HidePoweredBy ==
    HeaderOp(hide_powered_by(headers)) /\ armored' = FALSE /\ UNCHANGED modes

Hsts ==
    HeaderOp(hsts(headers)) /\ armored' = FALSE /\ UNCHANGED modes

XssFilter ==
    HeaderOp(xss_filter(headers)) /\ armored' = FALSE /\ UNCHANGED modes

ReferrerPolicy ==
    /\ Len(modes) < MaxReferrer
    /\ \E referrer \in ReferrerOptions :
        /\ HeaderOp(referrer_policy(headers, referrer))
        /\ modes' = Append(modes, referrer)
    /\ armored' = FALSE

NextHeaders ==
    \/ Armor
    \/ DnsPrefetchControl
    \/ DontSniffMimetype
    \/ Frameguard
    \/ HidePoweredBy
    \/ Hsts
    \/ XssFilter
    \/ ReferrerPolicy

\* the functions of lib.rs on one header collection
SpecHeaders == Init /\ [][NextHeaders]_vars

----------------------------------------------------------------------------
(* What the properties below speak of *)

\* this step is the current builder's first apply(), and it returned
FirstApply ==
    applied = 0 /\ applied' = 1 /\ ~panicked'

\* the value this apply() step wrote
Written ==
    headers'[Target(csp)][1]

RECURSIVE Split(_)
\* the directives of a header value: its pieces between the separators "; "
Split(v) ==
    LET seps == {i \in 1..(Len(v) - 1) : v[i] = 59 /\ v[i + 1] = 32}
    IN  IF seps = {} THEN <<v>>
        ELSE LET i == CHOOSE j \in seps : \A k \in seps : j <= k
             IN  <<SubSeq(v, 1, i - 1)>> \o Split(SubSeq(v, i + 2, Len(v)))

\* the name of a directive: its text before the first space
NameOf(tok) ==
    LET sp == {i \in DOMAIN tok : tok[i] = 32}
    IN  IF sp = {} THEN tok
        ELSE SubSeq(tok, 1, (CHOOSE j \in sp : \A k \in sp : j <= k) - 1)

\* how often x occurs in the sequence ss
Count(ss, x) ==
    Cardinality({i \in DOMAIN ss : ss[i] = x})

\* the directive name each method stands for, from the fixed directive set
DirectiveName(method) ==
    CASE method = "base_uri"        -> <<98, 97, 115, 101, 45, 117, 114, 105>>
      [] method = "connect_src"     -> <<99, 111, 110, 110, 101, 99, 116, 45, 115, 114, 99>>
      [] method = "default_src"     -> <<100, 101, 102, 97, 117, 108, 116, 45, 115, 114, 99>>
      [] method = "font_src"        -> <<102, 111, 110, 116, 45, 115, 114, 99>>
      [] method = "form_action"     -> <<102, 111, 114, 109, 45, 97, 99, 116, 105, 111, 110>>
      [] method = "frame_ancestors" -> <<102, 114, 97, 109, 101, 45, 97, 110, 99, 101, 115, 116, 111, 114, 115>>
      [] method = "frame_src"       -> <<102, 114, 97, 109, 101, 45, 115, 114, 99>>
      [] method = "img_src"         -> <<105, 109, 103, 45, 115, 114, 99>>
      [] method = "media_src"       -> <<109, 101, 100, 105, 97, 45, 115, 114, 99>>
      [] method = "object_src"      -> <<111, 98, 106, 101, 99, 116, 45, 115, 114, 99>>
      [] method = "plugin_types"    -> <<112, 108, 117, 103, 105, 110, 45, 116, 121, 112, 101, 115>>
      [] method = "require_sri_for" -> <<114, 101, 113, 117, 105, 114, 101, 45, 115, 114, 105, 45, 102, 111, 114>>
      [] method = "report_uri"      -> <<114, 101, 112, 111, 114, 116, 45, 117, 114, 105>>
      [] method = "sandbox"         -> <<115, 97, 110, 100, 98, 111, 120>>
      [] method = "script_src"      -> <<115, 99, 114, 105, 112, 116, 45, 115, 114, 99>>
      [] method = "style_src"       -> <<115, 116, 121, 108, 101, 45, 115, 114, 99>>
      [] method = "worker_src"      -> <<119, 111, 114, 107, 101, 114, 45, 115, 114, 99>>

\* the complete token list of a builder: the standalone tokens, then one fragment
\* "<key> <sources joined by spaces>" per directive key
AllTokens(self) ==
    LET keys == CHOOSE order \in Orders(DOMAIN self.directives) : TRUE
    IN  self.policy
        \o [i \in DOMAIN keys |-> keys[i] \o <<32>> \o join(self.directives[keys[i]], <<32>>)]

\* the standalone token lists of the fresh builders filled with the same standalone
\* tokens in another order; the token of default() is there from construction
Refills(policy) ==
    LET perms == {[i \in DOMAIN policy |-> policy[f[i]]] : f \in Orders(DOMAIN policy)}
    IN  {q \in perms : (policy # <<>> /\ policy[1] = default.policy[1])
                           => q[1] = default.policy[1]}

----------------------------------------------------------------------------
(* The properties *)

\* C1: an apply() that follows an apply() with no builder method in between writes
\* the value the one before wrote.
C1_ApplyIdempotent ==
    [][(inarow >= 1 /\ inarow' = inarow + 1)
          => headers'[Target(csp)] = headers[Target(csp)]]_vars

\* C2: the value the first apply() writes is the complete token list, sorted by
\* byte-wise lexicographic order and joined with "; ", also when the builder holds
\* no directive.
C2_FirstApplySorted ==
    [][FirstApply => Written = join(sort(AllTokens(csp)), <<59, 32>>)]_vars

\* C3: for each per-directive method called with s1..sn, the value the first apply()
\* writes holds exactly one directive of that name, and it is "<name> s1 ... sn".
C3_OneFragmentInCallOrder ==
    [][FirstApply =>
          \A m \in Methods \ {"report_uri"} :
              called[m] # <<>> =>
                  LET toks == Split(Written)
                      mine == {i \in DOMAIN toks : NameOf(toks[i]) = DirectiveName(m)}
                  IN  /\ Cardinality(mine) = 1
                      /\ \A i \in mine :
                            toks[i] = DirectiveName(m) \o <<32>> \o join(called[m], <<32>>)]_vars

\* C4: the value the first apply() writes is the value any fresh builder writes that
\* was given the same sources per directive and the same standalone tokens in
\* another order.
C4_FillOrderIrrelevant ==
    [][FirstApply =>
          \A q \in Refills(csp.policy) :
              \A order \in Orders(DOMAIN csp.directives) :
                  value([csp EXCEPT !.policy = q], order).val = Written]_vars

\* C5: right after an apply() of a builder with report_only() set, the policy is
\* under Content-Security-Policy-Report-Only and Content-Security-Policy is absent;
\* without report_only() the policy is under Content-Security-Policy.
C5_ReportOnlyLeavesNoEnforcedPolicy ==
    inarow >= 1 =>
        IF csp.report_only_flag
        THEN /\ headers["Content-Security-Policy-Report-Only"]
                    = lastApplied["Content-Security-Policy-Report-Only"]
             /\ headers["Content-Security-Policy"] = <<>>
        ELSE headers["Content-Security-Policy"] = lastApplied["Content-Security-Policy"]

\* C6: a CSP header key that an apply() has written to holds exactly one value, the
\* value rendered by the most recent apply() that wrote to it (an apply() that
\* panics returns nothing and writes nothing).
C6_ApplyOverwrites ==
    \A k \in CspKeys : lastApplied[k] # <<>> => headers[k] = lastApplied[k]

\* C6's case: the caller's collection held two Content-Security-Policy values, and a
\* second builder has applied a policy to the key after a first one did.
C6_Witness ==
    /\ Len(h0["Content-Security-Policy"]) = 2
    /\ applies = 2 /\ applied = 1 /\ ~panicked
    /\ ~csp.report_only_flag
    /\ csp.directives # <<>>

\* C7: Referrer-Policy holds the values the caller's collection held, then one
\* value per referrer_policy call, in call order, each the fixed string of its mode
\* (the empty string for an absent mode and for Empty).
C7_ReferrerPolicyAppends ==
    LET had == Len(h0["Referrer-Policy"])
        now == headers["Referrer-Policy"]
    IN  /\ Len(now) = had + Len(modes)
        /\ \A i \in 1..had : now[i] = h0["Referrer-Policy"][i]
        /\ \A i \in 1..Len(modes) :
              /\ now[had + i] = referrer_string(modes[i])
              /\ modes[i] \in {"None", "Empty"} => now[had + i] = <<>>

\* C7's case: two calls with different modes on a collection that lacked the key.
C7_Witness ==
    /\ h0["Referrer-Policy"] = <<>>
    /\ modes = <<"UnsafeUrl", "None">>
    /\ Len(headers["Referrer-Policy"]) = 2

\* C8: armor() leaves the five protection headers with exactly their one value,
\* X-Powered-By absent, and every other key as it was.
C8_ArmorSetsAndKeeps ==
    [][Armor =>
          /\ headers'["X-DNS-Prefetch-Control"] = << <<111, 110>> >>
          /\ headers'["X-Content-Type-Options"] = << <<110, 111, 115, 110, 105, 102, 102>> >>
          /\ headers'["X-Frame-Options"]
                = << <<115, 97, 109, 101, 111, 114, 105, 103, 105, 110>> >>
          /\ headers'["Strict-Transport-Security"]
                = << <<109, 97, 120, 45, 97, 103, 101, 61, 53, 49, 56, 52, 48, 48, 48>> >>
          /\ headers'["X-XSS-Protection"]
                = << <<49, 59, 32, 109, 111, 100, 101, 61, 98, 108, 111, 99, 107>> >>
          /\ headers'["X-Powered-By"] = <<>>
          /\ \A k \in {"Content-Security-Policy", "Content-Security-Policy-Report-Only",
                       "Referrer-Policy", "Server"} : headers'[k] = headers[k]]_vars

\* C8's case: armor() has just run on a collection that held X-Powered-By, two
\* X-Frame-Options values, a Content-Security-Policy and Referrer-Policy entries.
C8_Witness ==
    /\ armored
    /\ h0["X-Powered-By"] # <<>>
    /\ Len(h0["X-Frame-Options"]) = 2
    /\ headers["Content-Security-Policy"] # <<>>
    /\ Len(headers["Referrer-Policy"]) = 2

\* C9: apply() never fails.
C9_ApplyNeverFails ==
    ~panicked

\* C10 as stated: the value the first apply() writes holds one separate token
\* "report-uri <u>" per report_uri(u) call.
C10_OneTokenPerReportUri ==
    [][FirstApply =>
          LET us == called["report_uri"]
              toks == Split(Written)
          IN  \A i \in DOMAIN us :
                  Count(toks, <<114, 101, 112, 111, 114, 116, 45, 117, 114, 105, 32>> \o us[i])
                      = Count(us, us[i])]_vars

\* C10: report_uri leaves the standalone token list alone and adds its URI to the
\* one directive entry "report-uri": the token list the first apply() renders holds
\* exactly one token of that name, "report-uri u1 ... uk".
C10_ReportUriMerged ==
    [][/\ Len(called'["report_uri"]) = Len(called["report_uri"]) + 1
            => csp'.policy = csp.policy
       /\ (applied = 0 /\ applied' = 1 /\ called["report_uri"] # <<>>)
            => LET toks == csp'.policy
                   mine == {i \in DOMAIN toks : NameOf(toks[i]) = DirectiveName("report_uri")}
               IN  /\ Cardinality(mine) = 1
                   /\ \A i \in mine :
                         toks[i] = <<114, 101, 112, 111, 114, 116, 45, 117, 114, 105, 32>>
                                   \o join(called["report_uri"], <<32>>)]_vars

\* C10's case: report_uri was called twice and the builder has been applied once.
C10_Witness ==
    /\ Len(called["report_uri"]) = 2
    /\ applied = 1 /\ ~panicked
    /\ headers[Target(csp)] = lastApplied[Target(csp)]

\* C11: for each per-directive method called with t1..tN, the value the first
\* apply() writes holds the directive "<directive-name> t1 ... tN", one space after
\* the name and one between the tokens.
C11_FragmentIsNameAndTokens ==
    [][FirstApply =>
          LET toks == Split(Written)
          IN  \A m \in Methods \ {"report_uri"} :
                  called[m] # <<>> =>
                      Count(toks, DirectiveName(m) \o <<32>> \o join(called[m], <<32>>)) >= 1]_vars

\* how many of the tokens toks carry the directive name name
Named(toks, name) ==
    Cardinality({i \in DOMAIN toks : NameOf(toks[i]) = name})

\* C12 as stated: in the value the first apply() writes, no two directives share
\* a directive name.
C12_NamesUniqueInHeader ==
    [][FirstApply =>
          LET toks == Split(Written)
          IN  \A i, j \in DOMAIN toks : i # j => NameOf(toks[i]) # NameOf(toks[j])]_vars

\* C12: the first apply() renders exactly one token per key of the directive map:
\* a directive name is on as many of the rendered tokens as standalone tokens
\* carried it before, plus one if its method was called.
C12_OneTokenPerMapKey ==
    [][(applied = 0 /\ applied' = 1) =>
          \A m \in Methods :
              Named(csp'.policy, DirectiveName(m))
                  = Named(csp.policy, DirectiveName(m))
                    + (IF called[m] # <<>> THEN 1 ELSE 0)]_vars

\* C12's case: a default() builder on which script_src was called twice has been
\* applied once; the value written names script-src in the default token and in
\* the rendered directive.
C12_Witness ==
    /\ Len(called["script_src"]) = 2
    /\ applied = 1 /\ ~panicked
    /\ Named(csp.policy, DirectiveName("script_src")) = 2
    /\ headers[Target(csp)] = <<join(csp.policy, <<59, 32>>)>>

============================================================================
